---- MODULE Spec2Model ----
(***************************************************************************)
(* Signaling relay of home-camera: the in-memory registry of active        *)
(* streams (activeStreams) and the socket.io event handlers that read and  *)
(* change it, as written in the relay server (src/unnamed/part_000, lines  *)
(* 129-405).  One action per handler; every handler runs to completion     *)
(* (Node's single thread), so a handler is one atomic step.                *)
(*                                                                         *)
(* The transport (socket.io) is modelled by what the handlers use of it:   *)
(* the set of connected sockets (io.sockets.sockets), the rooms a socket   *)
(* has joined (socket.join), and the three ways of sending: socket.emit,   *)
(* socket.to(room).emit and socket.broadcast.emit.                         *)
(***************************************************************************)
EXTENDS Integers, FiniteSets, Sequences, Bags, TLC

\* ---- bounds of the model ----
NumSockets == 2        \* socket ids 1..NumSockets, each used for one connection
NumStreamIds == 2      \* stream ids a client may name
MaxMs == 1             \* single-millisecond clock steps after the start
MaxIntervals == 1      \* sweep-interval clock steps after the maximum age
MaxLog == 5            \* events recorded by an observer (log)
NumPayloads == 2       \* distinct opaque WebRTC payloads a client may send
NumViewers == 2        \* viewers of the stream of one streamer's client
MaxCandidates == 3     \* ICE candidates one peer connection gathers

\* ---- program constants ----
MAX_AGE == 2 * 60 * 60 * 1000          \* part_000:383
SWEEP_INTERVAL == 5 * 60 * 1000        \* part_000:393

Sockets == 1..NumSockets
StreamIds == {100 + i : i \in 1..NumStreamIds}

\* The opaque payloads of the signaling events (an offer, an answer or a
\* candidate), and the names a client may put in the target field of one:
\* socket.to(name) takes any room name, a socket id or a stream id.
Payloads == 1..NumPayloads
Targets == Sockets \cup StreamIds

VARIABLES
    conn,           \* conn[p]: "idle" (not yet connected), "connected",
                    \* "closing" (gone from io.sockets.sockets, 'disconnect'
                    \* handler not yet run), "closed"
    activeStreams,  \* the Map: stream id -> [streamer, viewers, createdAt]
    rooms,          \* rooms[p]: the stream-id rooms socket p has joined
    now,            \* the wall clock (ms since the server started)
    nextSweep,      \* earliest time the cleanup timer may fire next
    last,           \* the event handled by the latest step
    sent,           \* bag of the messages that step emitted
    log,            \* observer: the create/join/leave events handled so far
    inbox,          \* the 'create-offer' requests that reached a streamer's
                    \* client and that it has not handled yet
    app             \* the fields of one client (CameraStreamApp) that its
                    \* signaling handlers read and write; 0 stands for null

vars == <<conn, activeStreams, rooms, now, nextSweep, last, sent, log, inbox, app>>

\* ---- the transport ----

Connected == {p \in Sockets : conn[p] = "connected"}

\* The sockets in room r: a connected socket is in the room named by its
\* own id, and in every room it joined.
Members(r) == {q \in Connected : q = r \/ r \in rooms[q]}

Msgs(recipients, ev, data) ==
    SetToBag({[to |-> q, ev |-> ev, data |-> data] : q \in recipients})

\* socket.emit(ev, data)
Emit(p, ev, data) == Msgs({p}, ev, data)

\* socket.to(room).emit(ev, data): everyone in the room except the sender
EmitTo(p, room, ev, data) == Msgs(Members(room) \ {p}, ev, data)

\* socket.broadcast.emit(ev, data): every connected socket except the sender
EmitBroadcast(p, ev, data) == Msgs(Connected \ {p}, ev, data)

\* ---- the registry ----

Keys == DOMAIN activeStreams

Delete(map, ids) == [k \in (DOMAIN map) \ ids |-> map[k]]

Set(map, id, v) == [k \in (DOMAIN map) \cup {id} |-> IF k = id THEN v ELSE map[k]]

\* What the latest step handled: a timer or clock step, a socket's
\* connection event, or a socket's event naming a stream id.
TimerEvent(ev) == [ev |-> ev]
SocketEvent(ev, p) == [ev |-> ev, socket |-> p]
Event(ev, p, id) == [ev |-> ev, socket |-> p, streamId |-> id]

Init ==
    /\ conn = [p \in Sockets |-> "idle"]
    /\ activeStreams = << >>
    /\ rooms = [p \in Sockets |-> {}]
    /\ now = 0
    /\ nextSweep = SWEEP_INTERVAL
    /\ last = TimerEvent("start")
    /\ sent = EmptyBag
    /\ log = << >>
    /\ inbox = {}
    /\ app = [isStreamer |-> FALSE, currentStreamId |-> 0, streamerId |-> 0,
              viewerId |-> 0,
              peerConnection |-> [open |-> FALSE, for |-> 0, left |-> 0]]

\* io.on('connection'): a new socket; it is sent the current stream ids
Connect(p) ==
    /\ conn[p] = "idle"
    /\ conn' = [conn EXCEPT ![p] = "connected"]
    /\ last' = SocketEvent("connection", p)
    /\ sent' = Emit(p, "active-streams", [streams |-> Keys])
    /\ UNCHANGED <<activeStreams, rooms, now, nextSweep>>

\* Faulty variant, for the sensitivity of the properties: create-stream
\* without the has() test (the handler as src/server.js:62-75 has it),
\* which overwrites an entry.
CreateStreamOverwrite(p, id) ==
    /\ conn[p] = "connected"
    /\ last' = Event("create-stream", p, id)
    /\ activeStreams' = Set(activeStreams, id,
            [streamer |-> p, viewers |-> {}, createdAt |-> now])
    /\ rooms' = [rooms EXCEPT ![p] = @ \cup {id}]
    /\ sent' = Emit(p, "stream-created", [streamId |-> id])
    /\ UNCHANGED <<conn, now, nextSweep>>

\* Faulty variant, for the sensitivity of the properties: create-stream
\* that starts the viewer set from the sockets found in the room of the id.
CreateStreamFromRoom(p, id) ==
    /\ conn[p] = "connected"
    /\ last' = Event("create-stream", p, id)
    /\ IF id \in Keys
       THEN /\ sent' = Emit(p, "stream-exists", [streamId |-> id])
            /\ UNCHANGED <<activeStreams, rooms>>
       ELSE /\ activeStreams' = Set(activeStreams, id,
                    [streamer |-> p, viewers |-> Members(id) \ {p},
                     createdAt |-> now])
            /\ rooms' = [rooms EXCEPT ![p] = @ \cup {id}]
            /\ sent' = Emit(p, "stream-created", [streamId |-> id])
                       (+) EmitBroadcast(p, "stream-started", [streamId |-> id])
    /\ UNCHANGED <<conn, now, nextSweep>>

\* socket.on('create-stream')
CreateStream(p, id) ==
    /\ conn[p] = "connected"
    /\ last' = Event("create-stream", p, id)
    /\ IF id \in Keys
       THEN /\ sent' = Emit(p, "stream-exists", [streamId |-> id])
            /\ UNCHANGED <<activeStreams, rooms>>
       ELSE /\ activeStreams' = Set(activeStreams, id,
                    [streamer |-> p, viewers |-> {}, createdAt |-> now])
            /\ rooms' = [rooms EXCEPT ![p] = @ \cup {id}]
            /\ sent' = Emit(p, "stream-created", [streamId |-> id])
                       (+) EmitBroadcast(p, "stream-started", [streamId |-> id])
    /\ UNCHANGED <<conn, now, nextSweep>>

\* Faulty variant, for the sensitivity of the properties: join-stream
\* without the test of io.sockets.sockets (the handler as
\* src/server.js:78-105 has it).
JoinStreamUnchecked(p, id) ==
    /\ conn[p] = "connected"
    /\ last' = Event("join-stream", p, id)
    /\ IF id \in Keys
       THEN LET stream == activeStreams[id]
                viewers == stream.viewers \cup {p} IN
            /\ activeStreams' = [activeStreams EXCEPT ![id].viewers = viewers]
            /\ rooms' = [rooms EXCEPT ![p] = @ \cup {id}]
            /\ sent' = EmitTo(p, stream.streamer, "viewer-joined",
                           [viewerId |-> p, viewerCount |-> Cardinality(viewers)])
                       (+) Emit(p, "stream-joined",
                           [streamId |-> id, streamerId |-> stream.streamer])
       ELSE /\ sent' = Emit(p, "stream-not-found", [streamId |-> id])
            /\ UNCHANGED <<activeStreams, rooms>>
    /\ UNCHANGED <<conn, now, nextSweep>>

\* Faulty variant, for the sensitivity of the properties: a join of an
\* unknown id registers the id (get-or-create) before answering
\* 'stream-not-found'.
JoinStreamVivify(p, id) ==
    /\ conn[p] = "connected"
    /\ last' = Event("join-stream", p, id)
    /\ IF id \in Keys
       THEN LET stream == activeStreams[id]
                viewers == stream.viewers \cup {p} IN
            /\ activeStreams' = [activeStreams EXCEPT ![id].viewers = viewers]
            /\ rooms' = [rooms EXCEPT ![p] = @ \cup {id}]
            /\ sent' = EmitTo(p, stream.streamer, "viewer-joined",
                           [viewerId |-> p, viewerCount |-> Cardinality(viewers)])
                       (+) Emit(p, "stream-joined",
                           [streamId |-> id, streamerId |-> stream.streamer])
                       (+) EmitTo(p, stream.streamer, "create-offer",
                           [viewerId |-> p, streamId |-> id])
       ELSE /\ activeStreams' = Set(activeStreams, id,
                    [streamer |-> p, viewers |-> {}, createdAt |-> now])
            /\ sent' = Emit(p, "stream-not-found",
                            [streamId |-> id, availableStreams |-> Keys])
            /\ UNCHANGED rooms
    /\ UNCHANGED <<conn, now, nextSweep>>

\* Faulty variant, for the sensitivity of the properties: join-stream that
\* reports one more than the viewers it had, as if every join added one.
JoinStreamCounts(p, id) ==
    /\ conn[p] = "connected"
    /\ last' = Event("join-stream", p, id)
    /\ IF id \in Keys
       THEN LET stream == activeStreams[id] IN
            IF stream.streamer \notin Connected
            THEN /\ activeStreams' = Delete(activeStreams, {id})
                 /\ sent' = Emit(p, "streamer-disconnected", [streamId |-> id])
                 /\ UNCHANGED rooms
            ELSE LET viewers == stream.viewers \cup {p} IN
                 /\ activeStreams' = [activeStreams EXCEPT ![id].viewers = viewers]
                 /\ rooms' = [rooms EXCEPT ![p] = @ \cup {id}]
                 /\ sent' = EmitTo(p, stream.streamer, "viewer-joined",
                                [viewerId |-> p,
                                 viewerCount |-> Cardinality(stream.viewers) + 1])
                            (+) Emit(p, "stream-joined",
                                [streamId |-> id, streamerId |-> stream.streamer])
                            (+) EmitTo(p, stream.streamer, "create-offer",
                                [viewerId |-> p, streamId |-> id])
       ELSE /\ sent' = Emit(p, "stream-not-found",
                            [streamId |-> id, availableStreams |-> Keys])
            /\ UNCHANGED <<activeStreams, rooms>>
    /\ UNCHANGED <<conn, now, nextSweep>>

\* socket.on('join-stream')
JoinStream(p, id) ==
    /\ conn[p] = "connected"
    /\ last' = Event("join-stream", p, id)
    /\ IF id \in Keys
       THEN LET stream == activeStreams[id] IN
            IF stream.streamer \notin Connected
            THEN \* the recorded streamer is not in io.sockets.sockets
                 /\ activeStreams' = Delete(activeStreams, {id})
                 /\ sent' = Emit(p, "streamer-disconnected", [streamId |-> id])
                 /\ UNCHANGED rooms
            ELSE LET viewers == stream.viewers \cup {p} IN
                 /\ activeStreams' = [activeStreams EXCEPT ![id].viewers = viewers]
                 /\ rooms' = [rooms EXCEPT ![p] = @ \cup {id}]
                 /\ sent' = EmitTo(p, stream.streamer, "viewer-joined",
                                [viewerId |-> p, viewerCount |-> Cardinality(viewers)])
                            (+) Emit(p, "stream-joined",
                                [streamId |-> id, streamerId |-> stream.streamer])
                            (+) EmitTo(p, stream.streamer, "create-offer",
                                [viewerId |-> p, streamId |-> id])
       ELSE /\ sent' = Emit(p, "stream-not-found",
                            [streamId |-> id, availableStreams |-> Keys])
            /\ UNCHANGED <<activeStreams, rooms>>
    /\ UNCHANGED <<conn, now, nextSweep>>

\* Faulty variant, for the sensitivity of the properties: leave-stream
\* that notifies the streamer but forgets viewers.delete.
LeaveStreamKeepsViewer(p, id) ==
    /\ conn[p] = "connected"
    /\ last' = Event("leave-stream", p, id)
    /\ IF id \in Keys /\ p \in activeStreams[id].viewers
       THEN sent' = EmitTo(p, activeStreams[id].streamer, "viewer-left",
                       [viewerId |-> p,
                        viewerCount |-> Cardinality(activeStreams[id].viewers)])
       ELSE sent' = EmptyBag
    /\ UNCHANGED <<activeStreams, conn, rooms, now, nextSweep>>

\* Faulty variant, for the sensitivity of the properties: leave-stream
\* without the viewers.has test, which notifies the streamer of every
\* leave-stream of a registered id.
LeaveStreamUntested(p, id) ==
    /\ conn[p] = "connected"
    /\ last' = Event("leave-stream", p, id)
    /\ IF id \in Keys
       THEN LET stream == activeStreams[id]
                viewers == stream.viewers \ {p} IN
            /\ activeStreams' = [activeStreams EXCEPT ![id].viewers = viewers]
            /\ sent' = EmitTo(p, stream.streamer, "viewer-left",
                           [viewerId |-> p, viewerCount |-> Cardinality(viewers)])
       ELSE /\ sent' = EmptyBag
            /\ UNCHANGED activeStreams
    /\ UNCHANGED <<conn, rooms, now, nextSweep>>

\* Faulty variant, for the sensitivity of the properties: leave-stream that
\* takes the socket out of the viewer set of every stream.
LeaveStreamEverywhere(p, id) ==
    /\ conn[p] = "connected"
    /\ last' = Event("leave-stream", p, id)
    /\ activeStreams' = [k \in Keys |->
            [activeStreams[k] EXCEPT !.viewers = @ \ {p}]]
    /\ IF id \in Keys /\ p \in activeStreams[id].viewers
       THEN LET stream == activeStreams[id]
                viewers == stream.viewers \ {p} IN
            sent' = EmitTo(p, stream.streamer, "viewer-left",
                           [viewerId |-> p, viewerCount |-> Cardinality(viewers)])
       ELSE sent' = EmptyBag
    /\ UNCHANGED <<conn, rooms, now, nextSweep>>

\* socket.on('leave-stream')
LeaveStream(p, id) ==
    /\ conn[p] = "connected"
    /\ last' = Event("leave-stream", p, id)
    /\ IF id \in Keys /\ p \in activeStreams[id].viewers
       THEN LET stream == activeStreams[id]
                viewers == stream.viewers \ {p} IN
            /\ activeStreams' = [activeStreams EXCEPT ![id].viewers = viewers]
            /\ sent' = EmitTo(p, stream.streamer, "viewer-left",
                           [viewerId |-> p, viewerCount |-> Cardinality(viewers)])
       ELSE /\ sent' = EmptyBag
            /\ UNCHANGED activeStreams
    /\ UNCHANGED <<conn, rooms, now, nextSweep>>

\* What a signaling event carries: the payload, the stream id it is about
\* and the target field (targetViewerId, targetStreamerId or target).
SignalData == [payload : Payloads, streamId : StreamIds, target : Targets]

\* socket.on('offer'), socket.on('answer') and socket.on('ice-candidate'):
\* the three handlers relay the payload to the room named by the target
\* field, with the stream id and the sender's id; ev is the event name.
Signal(ev, p, data) ==
    /\ conn[p] = "connected"
    /\ last' = [ev |-> ev, socket |-> p, data |-> data]
    /\ sent' = EmitTo(p, data.target, ev,
                      [payload |-> data.payload, streamId |-> data.streamId,
                       from |-> p])
    /\ UNCHANGED <<conn, activeStreams, rooms, now, nextSweep>>

\* An 'offer' event may come without its offer field.
OfferData == SignalData \cup [streamId : StreamIds, target : Targets]

\* socket.on('offer') when data.offer is undefined: reading data.offer.type
\* for the log throws before anything is emitted; nothing catches it, the
\* process ends and with it the registry, the rooms and every connection.
OfferThrows(p, data) ==
    /\ conn[p] = "connected"
    /\ last' = [ev |-> "offer", socket |-> p, data |-> data]
    /\ sent' = EmptyBag
    /\ activeStreams' = << >>
    /\ rooms' = [q \in Sockets |-> {}]
    /\ conn' = [q \in Sockets |-> IF conn[q] = "idle" THEN "idle" ELSE "closed"]
    /\ UNCHANGED <<now, nextSweep>>

Offer(p, data) ==
    IF "payload" \in DOMAIN data
    THEN Signal("offer", p, data)
    ELSE OfferThrows(p, data)
Answer(p, data) == Signal("answer", p, data)
IceCandidate(p, data) == Signal("ice-candidate", p, data)

RECURSIVE SumBags(_, _)
SumBags(f, S) ==
    IF S = {} THEN EmptyBag
    ELSE LET x == CHOOSE y \in S : TRUE IN f[x] (+) SumBags(f, S \ {x})

\* Faulty variant, for the sensitivity of the properties: the disconnect
\* loop without the viewers.has test, which tells every other streamer
\* that a viewer left.
DisconnectEmitsUntested(p, leftConn, id) ==
    LET stream == activeStreams[id]
        members(r) == {q \in Sockets : leftConn[q] = "connected"
                                       /\ (q = r \/ r \in rooms[q])} \ {p}
        others == {q \in Sockets : leftConn[q] = "connected"} \ {p}
    IN  IF stream.streamer = p
        THEN Msgs(members(id), "stream-ended",
                  [streamId |-> id, reason |-> "Streamer disconnected"])
             (+) Msgs(others, "stream-ended-broadcast", [streamId |-> id])
        ELSE Msgs(members(stream.streamer), "viewer-left",
                  [viewerId |-> p,
                   viewerCount |-> Cardinality(stream.viewers \ {p})])

\* One pass of the loop of socket.on('disconnect') over the entry of id:
\* what it emits.  The socket has left the transport before the handler runs.
DisconnectEmits(p, leftConn, id) ==
    LET stream == activeStreams[id]
        members(r) == {q \in Sockets : leftConn[q] = "connected"
                                       /\ (q = r \/ r \in rooms[q])} \ {p}
        others == {q \in Sockets : leftConn[q] = "connected"} \ {p}
    IN  IF stream.streamer = p
        THEN Msgs(members(id), "stream-ended",
                  [streamId |-> id, reason |-> "Streamer disconnected"])
             (+) Msgs(others, "stream-ended-broadcast", [streamId |-> id])
        ELSE IF p \in stream.viewers
        THEN Msgs(members(stream.streamer), "viewer-left",
                  [viewerId |-> p,
                   viewerCount |-> Cardinality(stream.viewers \ {p})])
        ELSE EmptyBag

\* Faulty variant, for the sensitivity of the properties: the disconnect
\* loop without activeStreams.delete for the streams of the socket.
DisconnectStreamsKeepsOwn(p) ==
    [id \in Keys |-> IF activeStreams[id].streamer = p
                     THEN activeStreams[id]
                     ELSE [activeStreams[id] EXCEPT !.viewers = @ \ {p}]]

\* Faulty variant, for the sensitivity of the properties: the disconnect
\* loop left after the first stream that names the socket.
DisconnectStreamsFirst(p) ==
    LET refs == {id \in Keys : activeStreams[id].streamer = p
                               \/ p \in activeStreams[id].viewers}
        first == {id \in refs : \A j \in refs : id <= j}
        kept == {id \in Keys : ~(id \in first /\ activeStreams[id].streamer = p)}
    IN  [id \in kept |-> IF id \in first
                         THEN [activeStreams[id] EXCEPT !.viewers = @ \ {p}]
                         ELSE activeStreams[id]]

\* The registry after the loop of socket.on('disconnect') for socket p
DisconnectStreams(p) ==
    LET kept == {id \in Keys : activeStreams[id].streamer # p} IN
    [id \in kept |-> [activeStreams[id] EXCEPT !.viewers = @ \ {p}]]

\* socket.on('disconnect'), run by the transport right after it has removed
\* the socket from its rooms and from io.sockets.sockets
Disconnect(p) ==
    /\ conn[p] = "connected"
    /\ conn' = [conn EXCEPT ![p] = "closed"]
    /\ rooms' = [rooms EXCEPT ![p] = {}]
    /\ last' = SocketEvent("disconnect", p)
    /\ activeStreams' = DisconnectStreams(p)
    /\ sent' = SumBags([id \in Keys |-> DisconnectEmits(p, conn', id)], Keys)
    /\ UNCHANGED <<now, nextSweep>>

\* The transport loses socket p: it leaves its rooms and io.sockets.sockets.
Drop(p) ==
    /\ conn[p] = "connected"
    /\ conn' = [conn EXCEPT ![p] = "closing"]
    /\ rooms' = [rooms EXCEPT ![p] = {}]
    /\ last' = SocketEvent("drop", p)
    /\ sent' = EmptyBag
    /\ UNCHANGED <<activeStreams, now, nextSweep>>

\* socket.on('disconnect') delivered after other handlers have run
LateDisconnect(p) ==
    /\ conn[p] = "closing"
    /\ conn' = [conn EXCEPT ![p] = "closed"]
    /\ last' = SocketEvent("disconnect", p)
    /\ activeStreams' = DisconnectStreams(p)
    /\ sent' = SumBags([id \in Keys |-> DisconnectEmits(p, conn', id)], Keys)
    /\ UNCHANGED <<rooms, now, nextSweep>>

\* socket.on('disconnect') run once more for a socket whose disconnect has
\* been handled: the handler is a function of socket.id and the registry.
DisconnectAgain(p) ==
    /\ conn[p] = "closed"
    /\ last' = [ev |-> "disconnect", socket |-> p, again |-> TRUE]
    /\ activeStreams' = DisconnectStreams(p)
    /\ sent' = SumBags([id \in Keys |-> DisconnectEmits(p, conn, id)], Keys)
    /\ UNCHANGED <<conn, rooms, now, nextSweep>>

\* The client's stopStreaming (the stop button of a client that streams):
\* it stops the camera tracks, closes the peer connection and resets the
\* page; it emits no event, so no handler of the relay runs.
StopStreaming(p) ==
    /\ conn[p] = "connected"
    /\ \E id \in Keys : activeStreams[id].streamer = p
    /\ last' = SocketEvent("stop-streaming", p)
    /\ sent' = EmptyBag
    /\ UNCHANGED <<conn, activeStreams, rooms, now, nextSweep>>

\* The entry of id as the HTTP routes report it
StreamInfo(id) ==
    [id |-> id, viewers |-> Cardinality(activeStreams[id].viewers),
     streamer |-> activeStreams[id].streamer,
     createdAt |-> activeStreams[id].createdAt]

HttpEvent(request, response) ==
    [ev |-> "http", request |-> request, response |-> response]

\* An HTTP handler answers its request and emits nothing on the sockets.
Respond(request, response) ==
    /\ last' = HttpEvent(request, response)
    /\ sent' = EmptyBag
    /\ UNCHANGED <<conn, rooms, now, nextSweep>>

\* app.get('/health')
Health ==
    /\ Respond([route |-> "/health"],
               [status |-> "OK", timestamp |-> now,
                streams |-> Cardinality(Keys),
                activeStreams |-> {[id |-> id,
                                    viewers |-> StreamInfo(id).viewers,
                                    streamer |-> StreamInfo(id).streamer] : id \in Keys}])
    /\ UNCHANGED activeStreams

\* The answer of app.get('/api/stream/:id')
StreamAnswer(id) ==
    IF id \in Keys
    THEN [exists |-> TRUE, viewers |-> StreamInfo(id).viewers,
          streamer |-> StreamInfo(id).streamer,
          createdAt |-> StreamInfo(id).createdAt]
    ELSE [exists |-> FALSE, message |-> "Stream not found or may have ended"]

\* Faulty variant, for the sensitivity of the properties: a lookup that
\* registers the id it does not find (get-or-create).
GetStreamVivify(id) ==
    /\ Respond([route |-> "/api/stream/:id", id |-> id], StreamAnswer(id))
    /\ IF id \in Keys
       THEN UNCHANGED activeStreams
       ELSE activeStreams' = Set(activeStreams, id,
                [streamer |-> 0, viewers |-> {}, createdAt |-> now])

\* app.get('/api/stream/:id')
GetStream(id) ==
    /\ Respond([route |-> "/api/stream/:id", id |-> id], StreamAnswer(id))
    /\ UNCHANGED activeStreams

\* app.get('/api/streams'); the array of the answer is taken as a set
GetStreams ==
    /\ Respond([route |-> "/api/streams"], {StreamInfo(id) : id \in Keys})
    /\ UNCHANGED activeStreams

\* Faulty variant, for the sensitivity of the properties: the age test
\* with >= for >.
ExpiredInclusive(t) == {id \in Keys : t - activeStreams[id].createdAt >= MAX_AGE}

\* The stream ids the cleanup pass deletes at time t
Expired(t) == {id \in Keys : t - activeStreams[id].createdAt > MAX_AGE}

\* Faulty variant, for the sensitivity of the properties: the cleanup on a
\* setTimeout, which runs once, for the setInterval.
SweepOnce ==
    /\ nextSweep = SWEEP_INTERVAL
    /\ now >= nextSweep
    /\ nextSweep' = now + SWEEP_INTERVAL
    /\ activeStreams' = Delete(activeStreams, Expired(now))
    /\ last' = [ev |-> "sweep", cleanedCount |-> Cardinality(Expired(now))]
    /\ sent' = EmptyBag
    /\ UNCHANGED <<conn, rooms, now>>

\* The setInterval callback: delete the streams older than two hours
Sweep ==
    /\ now >= nextSweep
    /\ nextSweep' = now + SWEEP_INTERVAL
    /\ activeStreams' = Delete(activeStreams, Expired(now))
    /\ last' = [ev |-> "sweep", cleanedCount |-> Cardinality(Expired(now))]
    /\ sent' = EmptyBag
    /\ UNCHANGED <<conn, rooms, now>>

\* Time passes.  The clock is sampled at a few instants: single
\* milliseconds first, then the two-hour maximum age, then sweep intervals.
Tick ==
    /\ \/ /\ now < MaxMs
          /\ now' = now + 1
       \/ /\ MaxMs <= now /\ now < MAX_AGE
          /\ now' = now + MAX_AGE
       \/ /\ MAX_AGE <= now /\ now < MAX_AGE + MaxMs + MaxIntervals * SWEEP_INTERVAL
          /\ now' = now + SWEEP_INTERVAL
    /\ last' = TimerEvent("tick")
    /\ sent' = EmptyBag
    /\ UNCHANGED <<conn, activeStreams, rooms, nextSweep>>

\* ---- the specifications ----

\* A step of the relay alone: no observer records it, no client acts on it
NoLog == UNCHANGED <<log, inbox, app>>

\* The relay over socket.io, which runs a socket's 'disconnect' handler in
\* the same turn in which it removes the socket.
Next ==
    \/ \E p \in Sockets : Connect(p) /\ NoLog
    \/ \E p \in Sockets, id \in StreamIds : CreateStream(p, id) /\ NoLog
    \/ \E p \in Sockets, id \in StreamIds : JoinStream(p, id) /\ NoLog
    \/ \E p \in Sockets, id \in StreamIds : LeaveStream(p, id) /\ NoLog
    \/ \E p \in Sockets : Disconnect(p) /\ NoLog
    \/ \E p \in Sockets : StopStreaming(p) /\ NoLog
    \/ Health /\ NoLog
    \/ \E id \in StreamIds : GetStream(id) /\ NoLog
    \/ GetStreams /\ NoLog
    \/ Sweep /\ NoLog
    \/ Tick /\ NoLog

Spec == Init /\ [][Next]_vars

\* The relay with its timer running: time does not stop and the setInterval
\* callback runs whenever it is due, for as long as the sampled clock goes.
SpecFair ==
    /\ Init
    /\ [][Next]_vars
    /\ WF_vars(Tick /\ NoLog)
    /\ WF_vars(Sweep /\ NoLog)


\* The same relay over a transport that only keeps the interface the
\* handlers rely on: the 'disconnect' notification of a socket may be
\* delivered after handlers of other sockets have run.
NextLag ==
    \/ \E p \in Sockets : Connect(p) /\ NoLog
    \/ \E p \in Sockets, id \in StreamIds : CreateStream(p, id) /\ NoLog
    \/ \E p \in Sockets, id \in StreamIds : JoinStream(p, id) /\ NoLog
    \/ \E p \in Sockets, id \in StreamIds : LeaveStream(p, id) /\ NoLog
    \/ \E p \in Sockets : Drop(p) /\ NoLog
    \/ \E p \in Sockets : LateDisconnect(p) /\ NoLog
    \/ \E p \in Sockets : StopStreaming(p) /\ NoLog
    \/ Health /\ NoLog
    \/ \E id \in StreamIds : GetStream(id) /\ NoLog
    \/ GetStreams /\ NoLog
    \/ Sweep /\ NoLog
    \/ Tick /\ NoLog

SpecLag == Init /\ [][NextLag]_vars

\* The socket handlers with the three signaling handlers among them, the
\* clock standing still: the signaling handlers read the rooms and never
\* the clock.
NextSignal ==
    \/ \E p \in Sockets : Connect(p) /\ NoLog
    \/ \E p \in Sockets, id \in StreamIds : CreateStream(p, id) /\ NoLog
    \/ \E p \in Sockets, id \in StreamIds : JoinStream(p, id) /\ NoLog
    \/ \E p \in Sockets, id \in StreamIds : LeaveStream(p, id) /\ NoLog
    \/ \E p \in Sockets, data \in OfferData : Offer(p, data) /\ NoLog
    \/ \E p \in Sockets, data \in SignalData : Answer(p, data) /\ NoLog
    \/ \E p \in Sockets, data \in SignalData : IceCandidate(p, data) /\ NoLog
    \/ \E p \in Sockets : Disconnect(p) /\ NoLog

SpecSignal == Init /\ [][NextSignal]_vars

\* The relay when the 'disconnect' of a socket may be handled again.
NextReplay ==
    \/ \E p \in Sockets : Connect(p) /\ NoLog
    \/ \E p \in Sockets, id \in StreamIds : CreateStream(p, id) /\ NoLog
    \/ \E p \in Sockets, id \in StreamIds : JoinStream(p, id) /\ NoLog
    \/ \E p \in Sockets, id \in StreamIds : LeaveStream(p, id) /\ NoLog
    \/ \E p \in Sockets : Disconnect(p) /\ NoLog
    \/ \E p \in Sockets : DisconnectAgain(p) /\ NoLog
    \/ \E p \in Sockets : StopStreaming(p) /\ NoLog
    \/ Health /\ NoLog
    \/ \E id \in StreamIds : GetStream(id) /\ NoLog
    \/ GetStreams /\ NoLog
    \/ Sweep /\ NoLog
    \/ Tick /\ NoLog

SpecReplay == Init /\ [][NextReplay]_vars

\* ---- the streamer's client (public/app.js) ----

\* The 'create-offer' requests among the messages of a step
Requests(msgs) ==
    {[to |-> m.to, viewerId |-> m.data.viewerId, streamId |-> m.data.streamId] :
        m \in {n \in BagToSet(msgs) : n.ev = "create-offer"}}

\* The clients get what the step of the relay sent them; the requests of a
\* client whose socket is gone are gone with it.  A request that is
\* waiting already is kept once.
Received ==
    /\ inbox' = {r \in inbox \cup Requests(sent') : conn'[r.to] = "connected"}
    /\ UNCHANGED <<log, app>>

\* socket.on('create-offer') with createOfferForViewer(data.viewerId) of a
\* client that streams (isStreamer is set by startStreaming, which emits
\* 'create-stream'), together with the relay's handling of the 'offer' it
\* emits: the offer goes to targetViewerId with the client's
\* currentStreamId, some id it created or joined.
CreateOfferForViewer(s, v, X) ==
    /\ [to |-> s, viewerId |-> v, streamId |-> X] \in inbox
    /\ \E payload \in Payloads, current \in StreamIds :
          Offer(s, [payload |-> payload, streamId |-> current, target |-> v])
    /\ inbox' = inbox \ {[to |-> s, viewerId |-> v, streamId |-> X]}
    /\ UNCHANGED <<log, app>>

\* The relay with the clients of the streamers answering 'create-offer'
NextClient ==
    \/ \E p \in Sockets : Connect(p) /\ Received
    \/ \E p \in Sockets, id \in StreamIds : CreateStream(p, id) /\ Received
    \/ \E p \in Sockets, id \in StreamIds : JoinStream(p, id) /\ Received
    \/ \E p \in Sockets, id \in StreamIds : LeaveStream(p, id) /\ Received
    \/ \E p \in Sockets : Disconnect(p) /\ Received
    \/ \E s \in Sockets, v \in Sockets, X \in StreamIds : CreateOfferForViewer(s, v, X)

\* A client whose socket stays connected handles each request it was sent.
SpecClient ==
    /\ Init
    /\ [][NextClient]_vars
    /\ \A s \in Sockets, v \in Sockets, X \in StreamIds :
          WF_vars(CreateOfferForViewer(s, v, X))


\* ---- one streamer's client by itself (public/app.js) ----

\* The ids of the sockets that view the stream of the client; its own
\* socket is another one, whose id these handlers never use.
ViewerIds == 1..NumViewers

\* this.socket.emit(ev, data)
ClientEmit(ev, data) == SetToBag({[ev |-> ev, data |-> data]})

Relay == <<conn, activeStreams, rooms, now, nextSweep, log>>

\* startStreaming(): the stream id is generated, 'create-stream' is emitted
\* and isStreamer is set.
StartStreaming(id) ==
    /\ app.currentStreamId = 0
    /\ app' = [app EXCEPT !.currentStreamId = id, !.isStreamer = TRUE]
    /\ last' = [ev |-> "startStreaming", streamId |-> id]
    /\ sent' = ClientEmit("create-stream", id)
    /\ UNCHANGED <<inbox, Relay>>

\* socket.on('viewer-joined'): the id of the viewer is kept in this.viewerId.
\* The relay sends 'create-offer' for the same viewer right behind it, and
\* the client takes its messages in the order they come.
OnViewerJoined(v) ==
    /\ app.currentStreamId # 0
    /\ inbox = {}
    /\ app' = [app EXCEPT !.viewerId = v]
    /\ inbox' = {[viewerId |-> v, streamId |-> app.currentStreamId]}
    /\ last' = [ev |-> "viewer-joined", viewerId |-> v]
    /\ sent' = EmptyBag
    /\ UNCHANGED Relay

\* socket.on('create-offer') with createOfferForViewer(data.viewerId): the
\* one peer connection is made if there is none, its offer becomes the local
\* description and is emitted for the viewer named in the request.
OnCreateOffer(v) ==
    /\ \E r \in inbox : r.viewerId = v
    /\ inbox' = {r \in inbox : r.viewerId # v}
    /\ last' = [ev |-> "create-offer", viewerId |-> v]
    /\ IF app.isStreamer
       THEN /\ app' = [app EXCEPT !.peerConnection =
                         IF @.open THEN [@ EXCEPT !.for = v]
                         ELSE [open |-> TRUE, for |-> v, left |-> MaxCandidates]]
            /\ \E payload \in Payloads :
                  sent' = ClientEmit("offer",
                             [payload |-> payload, target |-> v,
                              streamId |-> app.currentStreamId])
       ELSE /\ sent' = EmptyBag
            /\ UNCHANGED app
    /\ UNCHANGED Relay

\* peerConnection.onicecandidate: the candidate is emitted for
\* this.viewerId (for this.streamerId in a viewing client), if that is set.
OnIceCandidate ==
    /\ app.peerConnection.open
    /\ app.peerConnection.left > 0
    /\ app' = [app EXCEPT !.peerConnection.left = @ - 1]
    /\ last' = [ev |-> "icecandidate"]
    /\ LET target == IF app.isStreamer THEN app.viewerId ELSE app.streamerId IN
       IF target # 0
       THEN \E payload \in Payloads :
               sent' = ClientEmit("ice-candidate",
                          [payload |-> payload, target |-> target,
                           streamId |-> app.currentStreamId])
       ELSE sent' = EmptyBag
    /\ UNCHANGED <<inbox, Relay>>

NextApp ==
    \/ \E id \in StreamIds : StartStreaming(id)
    \/ \E v \in ViewerIds : OnViewerJoined(v)
    \/ \E v \in ViewerIds : OnCreateOffer(v)
    \/ OnIceCandidate

SpecApp == Init /\ [][NextApp]_vars

\* The socket handlers with the events recorded for the race of a join
\* with a disconnect: create-stream, join-stream, the loss of a socket and
\* its 'disconnect' handler, each with the stream ids it is about (for a
\* socket event, the streams of that socket) and the events it sent back
\* to its socket.
RecordRace ==
    /\ Len(log) < MaxLog
    /\ log' = Append(log,
          [ev |-> last'.ev, socket |-> last'.socket,
           streams |-> IF last'.ev \in {"drop", "disconnect"}
                       THEN {id \in Keys : activeStreams[id].streamer = last'.socket}
                       ELSE {last'.streamId},
           reply |-> {m.ev : m \in {n \in BagToSet(sent') : n.to = last'.socket}}])
    /\ UNCHANGED <<inbox, app>>

NextRace ==
    \/ \E p \in Sockets : Connect(p) /\ NoLog
    \/ \E p \in Sockets, id \in StreamIds : CreateStream(p, id) /\ RecordRace
    \/ \E p \in Sockets, id \in StreamIds : JoinStream(p, id) /\ RecordRace
    \/ \E p \in Sockets : Drop(p) /\ RecordRace
    \/ \E p \in Sockets : LateDisconnect(p) /\ RecordRace

SpecRace == Init /\ [][NextRace]_vars

\* One registry under create/join/leave events only, each event recorded
\* with whether it was answered by 'stream-joined'.
Record ==
    /\ Len(log) < MaxLog
    /\ log' = Append(log, [ev |-> last'.ev, socket |-> last'.socket,
                           streamId |-> last'.streamId,
                           joined |-> \E m \in BagToSet(sent') :
                                         m.ev = "stream-joined" /\ m.to = last'.socket])
    /\ UNCHANGED <<inbox, app>>

NextRegistry ==
    \/ \E p \in Sockets : Connect(p) /\ NoLog
    \/ \E p \in Sockets, id \in StreamIds : CreateStream(p, id) /\ Record
    \/ \E p \in Sockets, id \in StreamIds : JoinStream(p, id) /\ Record
    \/ \E p \in Sockets, id \in StreamIds : LeaveStream(p, id) /\ Record

SpecRegistry == Init /\ [][NextRegistry]_vars

\* ---- properties ----

Msg(to, ev, data) == [to |-> to, ev |-> ev, data |-> data]
One(m) == SetToBag({m})
Viewers(id) == activeStreams[id].viewers
Streamer(id) == activeStreams[id].streamer

\* C1: while a stream with id X exists, create-stream(X) from any socket is
\* answered with 'stream-exists' to the requester alone and leaves the
\* registry as it was; and through any step a stream that stays in the
\* registry keeps its streamer and its createdAt.
Thm_C1 ==
    [][ /\ \A p \in Sockets, id \in Keys :
              last' = Event("create-stream", p, id)
              => /\ sent' = One(Msg(p, "stream-exists", [streamId |-> id]))
                 /\ activeStreams' = activeStreams
        /\ \A id \in Keys \cap DOMAIN activeStreams' :
              /\ activeStreams'[id].streamer = Streamer(id)
              /\ activeStreams'[id].createdAt = activeStreams[id].createdAt
      ]_vars

\* A socket other than the streamer has just been refused an existing id.
Wit_C1 ==
    \E p \in Sockets, id \in Keys :
        /\ last = Event("create-stream", p, id)
        /\ Streamer(id) # p
        /\ BagIn(Msg(p, "stream-exists", [streamId |-> id]), sent)

\* The sockets whose latest successful join of id is not followed by a
\* leave-stream of id, read off the recorded events.
StillJoined(id) ==
    {p \in Sockets :
        \E i \in 1..Len(log) :
            /\ log[i].ev = "join-stream" /\ log[i].socket = p
            /\ log[i].streamId = id /\ log[i].joined
            /\ \A j \in (i+1)..Len(log) :
                  ~(log[j].ev = "leave-stream" /\ log[j].socket = p
                    /\ log[j].streamId = id)}

\* C2: after any sequence of create-stream, join-stream and leave-stream
\* events, the viewer set of every stream is exactly the set of sockets
\* whose latest successful join has not been followed by a leave.
Thm_C2 ==
    \A id \in StreamIds :
        IF id \in Keys
        THEN /\ Viewers(id) = StillJoined(id)
             /\ Cardinality(Viewers(id)) = Cardinality(StillJoined(id))
        ELSE StillJoined(id) = {}

\* A viewer joined the same stream twice and is counted once.
Wit_C2 ==
    \E id \in Keys, p \in Sockets, i \in 1..Len(log), j \in 1..Len(log) :
        /\ i < j
        /\ p \in Viewers(id) /\ p # Streamer(id)
        /\ log[i] = [ev |-> "join-stream", socket |-> p, streamId |-> id,
                     joined |-> TRUE]
        /\ log[j] = log[i]
        /\ Cardinality(Viewers(id)) = 1

\* C3: the streamer of a stream is never in the viewer set of that stream.
Claim_C3 == \A id \in Keys : Streamer(id) \notin Viewers(id)

\* C4: when the socket that streams A and views another stream B
\* disconnects, A is deleted and every viewer of A is sent 'stream-ended';
\* B stays, loses that viewer, and its streamer is sent 'viewer-left' with
\* the decreased count.
Claim_C4 ==
    [][ \A p \in Sockets, A \in Keys, B \in Keys :
          ( /\ last' = SocketEvent("disconnect", p)
            /\ A # B
            /\ Streamer(A) = p
            /\ p \in Viewers(B) )
          => /\ A \notin DOMAIN activeStreams'
             /\ \A v \in Viewers(A) :
                   \E m \in BagToSet(sent') :
                       m.to = v /\ m.ev = "stream-ended" /\ m.data.streamId = A
             /\ B \in DOMAIN activeStreams'
             /\ activeStreams'[B].viewers = Viewers(B) \ {p}
             /\ BagIn(Msg(Streamer(B), "viewer-left",
                          [viewerId |-> p,
                           viewerCount |-> Cardinality(Viewers(B)) - 1]), sent')
      ]_vars

\* C5: the 'disconnect' handler of a streamer deletes its streams; an id
\* that is not in the registry enters it only by a create-stream of that id;
\* and while the id is absent a join-stream of it is answered with
\* 'stream-not-found' and adds no viewer.
Thm_C5 ==
    [][ /\ \A p \in Sockets, id \in Keys :
              (last' = SocketEvent("disconnect", p) /\ Streamer(id) = p)
              => id \notin DOMAIN activeStreams'
        /\ \A id \in StreamIds \ Keys :
              /\ id \in DOMAIN activeStreams'
                 => \E p \in Sockets : last' = Event("create-stream", p, id)
              /\ \A p \in Sockets :
                    last' = Event("join-stream", p, id)
                    => /\ id \notin DOMAIN activeStreams'
                       /\ \E m \in BagToSet(sent') :
                             m.to = p /\ m.ev = "stream-not-found"
                             /\ m.data.streamId = id
                       /\ \A m \in BagToSet(sent') : m.ev # "stream-joined"
      ]_vars

\* A join is answered 'stream-not-found' for an id whose room the joiner is
\* still in: before the first sweep is due, the stream of that id can only
\* have gone by the disconnect of its streamer.
Wit_C5 ==
    \E p \in Sockets, id \in StreamIds \ Keys :
        /\ last = Event("join-stream", p, id)
        /\ id \in rooms[p]
        /\ now < SWEEP_INTERVAL
        /\ \E q \in Sockets : conn[q] = "closed"
        /\ \E m \in BagToSet(sent) : m.to = p /\ m.ev = "stream-not-found"

\* C6: a join-stream of an id that is not in the registry sends
\* 'stream-not-found' to the requester and nothing else, and leaves the
\* whole registry unchanged.
Thm_C6 ==
    [][ \A p \in Sockets, id \in StreamIds \ Keys :
          last' = Event("join-stream", p, id)
          => /\ activeStreams' = activeStreams
             /\ sent' = One(Msg(p, "stream-not-found",
                                [streamId |-> id, availableStreams |-> Keys]))
      ]_vars

\* A join of an unknown id was refused while another stream is registered.
Wit_C6 ==
    \E p \in Sockets, id \in StreamIds \ Keys :
        /\ last = Event("join-stream", p, id)
        /\ Keys # {}
        /\ \E k \in Keys : Viewers(k) # {}
        /\ BagIn(Msg(p, "stream-not-found",
                     [streamId |-> id, availableStreams |-> Keys]), sent)

\* C7: a join-stream of an id whose recorded streamer is not among the
\* connected sockets deletes the stream, sends the requester
\* 'streamer-disconnected' and no 'stream-joined', and adds the requester
\* to no viewer set.
Thm_C7 ==
    [][ \A p \in Sockets, id \in Keys :
          (last' = Event("join-stream", p, id) /\ Streamer(id) \notin Connected)
          => /\ id \notin DOMAIN activeStreams'
             /\ sent' = One(Msg(p, "streamer-disconnected", [streamId |-> id]))
             /\ \A k \in DOMAIN activeStreams' :
                   /\ k \in Keys
                   /\ p \in activeStreams'[k].viewers => p \in Viewers(k)
      ]_vars

\* A join found the streamer gone and was answered 'streamer-disconnected'.
Wit_C7 ==
    \E p \in Sockets, id \in StreamIds \ Keys :
        /\ last = Event("join-stream", p, id)
        /\ BagIn(Msg(p, "streamer-disconnected", [streamId |-> id]), sent)

\* C8: a join-stream of a registered id whose streamer is connected emits
\* exactly three messages: 'stream-joined' with the streamer's id to the
\* requester, 'viewer-joined' with the viewer count to the streamer, and
\* 'create-offer' naming the requester to the streamer.
Claim_C8 ==
    [][ \A p \in Sockets, id \in Keys :
          (last' = Event("join-stream", p, id) /\ Streamer(id) \in Connected)
          => sent' = One(Msg(p, "stream-joined",
                             [streamId |-> id, streamerId |-> Streamer(id)]))
                     (+) One(Msg(Streamer(id), "viewer-joined",
                             [viewerId |-> p,
                              viewerCount |-> Cardinality(activeStreams'[id].viewers)]))
                     (+) One(Msg(Streamer(id), "create-offer",
                             [viewerId |-> p, streamId |-> id]))
      ]_vars

\* C9: a sweep at time now deletes exactly the streams with
\* now - createdAt greater than two hours; every other stream stays as it
\* was, at every run of the sweep.
Thm_C9 ==
    [][ last'.ev = "sweep"
        => /\ DOMAIN activeStreams' =
                 {id \in Keys : now - activeStreams[id].createdAt <= 2 * 3600 * 1000}
           /\ \A id \in DOMAIN activeStreams' : activeStreams'[id] = activeStreams[id]
           /\ last'.cleanedCount = Cardinality(Keys \ DOMAIN activeStreams')
      ]_vars

\* A sweep deleted a stream and kept one whose age is exactly two hours.
Wit_C9 ==
    /\ last.ev = "sweep"
    /\ last.cleanedCount >= 1
    /\ \E id \in Keys : now - activeStreams[id].createdAt = MAX_AGE

\* C10: for every stream the sweep deletes, 'stream-ended' is sent to every
\* socket in the viewer set of that stream.
Claim_C10 ==
    [][ last'.ev = "sweep"
        => \A id \in Keys \ DOMAIN activeStreams' :
              \A v \in Viewers(id) :
                 \E m \in BagToSet(sent') : m.to = v /\ m.ev = "stream-ended"
      ]_vars

\* C11: a viewer that leaves or disconnects never removes the stream: the
\* stream stays with the same streamer; when it was the last viewer the
\* viewer set becomes empty and the streamer is sent 'viewer-left' with
\* viewerCount 0; and a join-stream of a stream with no viewers succeeds.
Claim_C11 ==
    [][ \A p \in Sockets, id \in Keys :
          /\ ( /\ \/ last' = Event("leave-stream", p, id)
                  \/ last' = SocketEvent("disconnect", p)
               /\ p \in Viewers(id) )
             => /\ id \in DOMAIN activeStreams'
                /\ activeStreams'[id].streamer = Streamer(id)
                /\ activeStreams'[id].viewers = Viewers(id) \ {p}
                /\ Viewers(id) = {p}
                   => BagIn(Msg(Streamer(id), "viewer-left",
                                [viewerId |-> p, viewerCount |-> 0]), sent')
          /\ ( /\ last' = Event("join-stream", p, id)
               /\ Viewers(id) = {} )
             => /\ p \in activeStreams'[id].viewers
                /\ BagIn(Msg(p, "stream-joined",
                             [streamId |-> id, streamerId |-> Streamer(id)]), sent')
      ]_vars

SignalEvents == {"offer", "answer", "ice-candidate"}
SignalEvent(ev, p, data) == [ev |-> ev, socket |-> p, data |-> data]

\* What the relay makes of a signaling event of socket p for one recipient
Relayed(to, ev, p, data) ==
    Msg(to, ev, [payload |-> data.payload, streamId |-> data.streamId,
                 from |-> p])

\* C12: an offer, answer or ice-candidate event is delivered to the target
\* named in it and to no other socket, with the payload and the stream id
\* as they came and 'from' set to the sender; a target that is another
\* connected socket gets it exactly once.
Claim_C12 ==
    [][ \A ev \in SignalEvents, p \in Sockets, data \in SignalData :
          last' = SignalEvent(ev, p, data)
          => /\ \A m \in BagToSet(sent') : m = Relayed(data.target, ev, p, data)
             /\ data.target \in Connected \ {p}
                => sent' = One(Relayed(data.target, ev, p, data))
      ]_vars

\* C13: a leave-stream of an id that is not registered, or by a socket that
\* is not in the viewer set of that id, leaves the registry as it was and
\* sends nothing; whatever a leave-stream sends is the 'viewer-left' with
\* the new count to the streamer, and it is sent only for a socket that was
\* in the viewer set.
Thm_C13 ==
    [][ \A p \in Sockets, id \in StreamIds :
          last' = Event("leave-stream", p, id)
          => IF id \in Keys /\ p \in Viewers(id)
             THEN \A m \in BagToSet(sent') :
                     m = Msg(Streamer(id), "viewer-left",
                             [viewerId |-> p,
                              viewerCount |-> Cardinality(Viewers(id)) - 1])
             ELSE /\ activeStreams' = activeStreams
                  /\ sent' = EmptyBag
      ]_vars

\* A socket that joined a stream and left it has sent leave-stream again:
\* it is still in the room, no longer a viewer, and nothing was sent.
Wit_C13 ==
    \E p \in Sockets, id \in Keys :
        /\ last = Event("leave-stream", p, id)
        /\ Streamer(id) # p /\ Streamer(id) \in Connected
        /\ id \in rooms[p]
        /\ sent = EmptyBag

\* The streams that name socket p, as streamer or as viewer
Referencing(p) == {id \in Keys : Streamer(id) = p \/ p \in Viewers(id)}

\* C14: handling the disconnect of a socket that no stream names leaves the
\* registry as it was and sends nothing; and handling a disconnect that has
\* been handled before does the same, so that handling it twice gives the
\* registry that handling it once gave.
Thm_C14 ==
    [][ \A p \in Sockets :
          /\ (last'.ev = "disconnect" /\ last'.socket = p /\ Referencing(p) = {})
             => activeStreams' = activeStreams /\ sent' = EmptyBag
          /\ last' = [ev |-> "disconnect", socket |-> p, again |-> TRUE]
             => activeStreams' = activeStreams /\ sent' = EmptyBag
      ]_vars

\* The disconnect of a socket has been handled a second time while the
\* stream of another socket is registered.
Wit_C14 ==
    \E p \in Sockets, id \in Keys :
        /\ last = [ev |-> "disconnect", socket |-> p, again |-> TRUE]
        /\ Streamer(id) # p

\* In the recorded events, c is the create-stream that registered X, i a
\* later join-stream of X, d the loss of the socket that streams X and h
\* the 'disconnect' handler of that socket, and X was not created again.
Race(c, i, d, h, X) ==
    /\ log[c].ev = "create-stream" /\ log[c].streams = {X}
    /\ "stream-created" \in log[c].reply
    /\ c < i /\ log[i].ev = "join-stream" /\ log[i].streams = {X}
    /\ c < d /\ log[d].ev = "drop" /\ log[d].socket = log[c].socket
    /\ log[h].ev = "disconnect" /\ log[h].socket = log[c].socket
    /\ \A k \in (c+1)..Len(log) :
          ~(log[k].ev = "create-stream" /\ log[k].streams = {X}
            /\ "stream-created" \in log[k].reply)

Races ==
    {r \in [c : 1..Len(log), i : 1..Len(log), d : 1..Len(log),
            h : 1..Len(log), X : StreamIds] : Race(r.c, r.i, r.d, r.h, r.X)}

\* C15: when a join-stream of X and the disconnect of the streamer of X
\* have both been handled, in either order, the joiner was answered
\* 'stream-joined' or 'streamer-disconnected', and X is not in the registry
\* (so the joiner is in no viewer set of X).
Claim_C15 ==
    \A r \in Races :
        /\ log[r.i].reply \cap {"stream-joined", "streamer-disconnected"} # {}
        /\ r.X \notin Keys

\* In the recorded events, a join-stream of X lies strictly between a and b
JoinBetween(a, b, X) ==
    \E j \in (a+1)..(b-1) : log[j].ev = "join-stream" /\ log[j].streams = {X}

\* C15 as the handlers have it: the joiner is answered 'stream-joined' when
\* the join is handled before the streamer's socket is lost;
\* 'streamer-disconnected' when it is the first join of X handled after the
\* loss and before the 'disconnect' handler (it deletes X); and
\* 'stream-not-found' when it is handled after X was deleted, by the
\* 'disconnect' handler or by such an earlier join.  In each order X is
\* then not in the registry; and no handler is blocked: the join handler
\* of a connected socket and the 'disconnect' handler of a lost socket can
\* always run.
Thm_C15 ==
    /\ \A r \in Races :
          /\ r.i < r.d => log[r.i].reply = {"stream-joined"}
          /\ (r.d < r.i /\ r.i < r.h)
             => log[r.i].reply = IF JoinBetween(r.d, r.i, r.X)
                                 THEN {"stream-not-found"}
                                 ELSE {"streamer-disconnected"}
          /\ r.h < r.i => log[r.i].reply = {"stream-not-found"}
          /\ r.X \notin Keys
    /\ \A p \in Sockets :
          /\ conn[p] = "connected"
             => \A id \in StreamIds : ENABLED (JoinStream(p, id) /\ NoLog)
          /\ conn[p] = "closing" => ENABLED (LateDisconnect(p) /\ NoLog)

\* A join was handled between the loss of the streamer's socket and its
\* 'disconnect' handler, and both have been handled.
Wit_C15 ==
    \E r \in Races :
        /\ r.d < r.i /\ r.i < r.h
        /\ log[r.i].socket # log[r.d].socket

\* C16: in every reachable state a socket is the streamer of at most one
\* stream of the registry.
Claim_C16 ==
    \A A \in Keys, B \in Keys : Streamer(A) = Streamer(B) => A = B

\* C17: when the streamer of a stream stops streaming and stays connected,
\* the stream is deleted from the registry and every viewer of it is sent
\* 'stream-ended', as when the streamer disconnects.
Claim_C17 ==
    [][ \A p \in Sockets, id \in Keys :
          (last' = SocketEvent("stop-streaming", p) /\ Streamer(id) = p)
          => /\ id \notin DOMAIN activeStreams'
             /\ \A v \in Viewers(id) \ {p} :
                   \E m \in BagToSet(sent') :
                       m.to = v /\ m.ev = "stream-ended" /\ m.data.streamId = id
      ]_vars

\* C18: a create-stream, accepted or refused, and a join-stream refused
\* with 'stream-not-found' send one message, to the requester, and nothing
\* to any other socket.
Claim_C18 ==
    [][ \A p \in Sockets, id \in StreamIds :
          ( \/ last' = Event("create-stream", p, id)
            \/ last' = Event("join-stream", p, id) /\ id \notin Keys )
          => /\ \A m \in BagToSet(sent') : m.to = p
             /\ BagCardinality(sent') = 1
      ]_vars

\* The streams that have socket p in their viewer set
Viewed(p) == {id \in Keys : p \in Viewers(id)}

\* C19: when a socket that is a viewer of several streams disconnects, it
\* is taken out of the viewer set of each of them, the streamer of each is
\* sent 'viewer-left' with the decreased count, and none of them that the
\* socket does not stream itself is deleted.
Claim_C19 ==
    [][ \A p \in Sockets :
          (last' = SocketEvent("disconnect", p) /\ Cardinality(Viewed(p)) >= 2)
          => \A id \in Viewed(p) :
                /\ id \in DOMAIN activeStreams' => p \notin activeStreams'[id].viewers
                /\ BagIn(Msg(Streamer(id), "viewer-left",
                             [viewerId |-> p,
                              viewerCount |-> Cardinality(Viewers(id)) - 1]), sent')
                /\ Streamer(id) # p
                   => /\ id \in DOMAIN activeStreams'
                      /\ activeStreams'[id] =
                            [activeStreams[id] EXCEPT !.viewers = @ \ {p}]
      ]_vars

\* C20: the HTTP queries (/health, /api/stream/:id, /api/streams) leave the
\* registry as it was: the same stream ids, and for each the same streamer,
\* viewer set and createdAt.
Thm_C20 ==
    [][ last'.ev = "http"
        => /\ DOMAIN activeStreams' = Keys
           /\ \A id \in Keys :
                 /\ activeStreams'[id].streamer = Streamer(id)
                 /\ activeStreams'[id].viewers = Viewers(id)
                 /\ activeStreams'[id].createdAt = activeStreams[id].createdAt
      ]_vars

\* A lookup of an id that is not registered was answered while another
\* stream, with a viewer, is registered.
Wit_C20 ==
    /\ last.ev = "http"
    /\ last.request.route = "/api/stream/:id"
    /\ last.response.exists = FALSE
    /\ last.request.id \notin Keys
    /\ \E id \in Keys : Viewers(id) \ {Streamer(id)} # {}

ViewerCountEvents == {"viewer-joined", "viewer-left"}

\* C21: every 'viewer-joined' or 'viewer-left' sent by a join-stream, a
\* leave-stream or a disconnect goes to the streamer of the stream and
\* carries the size of its viewer set right after the step; a join-stream
\* by a socket that is already a viewer leaves the set as it was and
\* reports its unchanged size.
Thm_C21 ==
    [][ /\ \A p \in Sockets, id \in StreamIds :
              ( \/ last' = Event("join-stream", p, id)
                \/ last' = Event("leave-stream", p, id) )
              => /\ \A m \in BagToSet(sent') :
                       m.ev \in ViewerCountEvents
                       => /\ id \in DOMAIN activeStreams'
                          /\ m.to = activeStreams'[id].streamer
                          /\ m.data.viewerCount =
                                Cardinality(activeStreams'[id].viewers)
                 /\ ( /\ last' = Event("join-stream", p, id)
                      /\ id \in Keys /\ p \in Viewers(id)
                      /\ Streamer(id) \in Connected )
                    => /\ activeStreams'[id].viewers = Viewers(id)
                       /\ \A m \in BagToSet(sent') :
                             m.ev = "viewer-joined"
                             => m.data.viewerCount = Cardinality(Viewers(id))
        /\ \A p \in Sockets :
              (last'.ev = "disconnect" /\ last'.socket = p)
              => \A m \in BagToSet(sent') :
                    m.ev \in ViewerCountEvents
                    => \E id \in Keys \cap DOMAIN activeStreams' :
                          /\ p \in Viewers(id)
                          /\ m.to = activeStreams'[id].streamer
                          /\ m.data.viewerCount =
                                Cardinality(activeStreams'[id].viewers)
      ]_vars

\* A viewer has joined a stream whose streamer is in its own viewer set:
\* the streamer is told that there are two viewers.
Wit_C21 ==
    \E p \in Sockets, id \in Keys :
        /\ last = Event("join-stream", p, id)
        /\ Streamer(id) # p
        /\ BagIn(Msg(Streamer(id), "viewer-joined",
                     [viewerId |-> p, viewerCount |-> 2]), sent)

\* C22: an offer, answer or ice-candidate event, whatever its sender, its
\* target and what it carries, leaves the registry as it was.
Claim_C22 ==
    [][ \A p \in Sockets :
          (last'.ev \in SignalEvents /\ last'.socket = p)
          => activeStreams' = activeStreams
      ]_vars

\* The events of a socket that name one stream id
StreamEvents == {"create-stream", "join-stream", "leave-stream"}

\* C23: a create-stream, join-stream or leave-stream of id X, accepted or
\* not, leaves every registered stream of another id registered and with
\* the streamer, the viewer set and the createdAt it had, and registers no
\* other id than X.
Thm_C23 ==
    [][ \A p \in Sockets, X \in StreamIds, ev \in StreamEvents :
          last' = Event(ev, p, X)
          => /\ DOMAIN activeStreams' \ {X} = Keys \ {X}
             /\ \A Y \in Keys \ {X} : activeStreams'[Y] = activeStreams[Y]
      ]_vars

\* A socket has left stream X, which it viewed, while it views another
\* stream Y.
Wit_C23 ==
    \E p \in Sockets, X \in Keys, Y \in Keys :
        /\ X # Y
        /\ last = Event("leave-stream", p, X)
        /\ BagIn(Msg(Streamer(X), "viewer-left",
                     [viewerId |-> p, viewerCount |-> 0]), sent)
        /\ p \in Viewers(Y)

\* The stream registered under id was created at time t
CreatedAt(id, t) == id \in Keys /\ activeStreams[id].createdAt = t

\* C24: with the timer running, every stream is deleted in the end, also
\* when its streamer stays connected -- stated for the streams created
\* early enough for the sampled clock to pass their maximum age; and the
\* first sweep that runs when a stream is older than two hours deletes it.
Thm_C24 ==
    /\ \A id \in StreamIds, t \in 0..MaxMs :
          CreatedAt(id, t) ~> ~CreatedAt(id, t)
    /\ [][ \A id \in Keys :
              (last'.ev = "sweep" /\ now - activeStreams[id].createdAt > MAX_AGE)
              => id \notin DOMAIN activeStreams'
         ]_vars

\* A sweep has deleted a stream while the socket that created it, and had
\* joined the room of its id then, is still connected.
Wit_C24 ==
    /\ last.ev = "sweep"
    /\ last.cleanedCount >= 1
    /\ \E id \in StreamIds \ Keys, p \in Connected :
          /\ id \in rooms[p]
          /\ \A q \in Sockets \ {p} : id \notin rooms[q]

\* C25: a stream leaves the registry only by a disconnect, a sweep or a
\* join-stream that finds its streamer gone, and nothing of it is kept: a
\* create-stream of an id that is not registered, from any socket, is
\* answered with 'stream-created' and registers the id with the requester
\* as streamer, the current time and an empty viewer set.
Thm_C25 ==
    [][ /\ \A X \in Keys \ DOMAIN activeStreams' :
              \/ last'.ev \in {"disconnect", "sweep"}
              \/ /\ last'.ev = "join-stream" /\ last'.streamId = X
                 /\ Streamer(X) \notin Connected
        /\ \A p \in Sockets, X \in StreamIds \ Keys :
              last' = Event("create-stream", p, X)
              => /\ activeStreams' = Set(activeStreams, X,
                        [streamer |-> p, viewers |-> {}, createdAt |-> now])
                 /\ BagIn(Msg(p, "stream-created", [streamId |-> X]), sent')
      ]_vars

\* An id has been registered again, with no viewers, while a socket that
\* was in the earlier stream of that id is still connected and in its room.
Wit_C25 ==
    \E p \in Sockets, X \in Keys :
        /\ last = Event("create-stream", p, X)
        /\ BagIn(Msg(p, "stream-created", [streamId |-> X]), sent)
        /\ activeStreams[X] = [streamer |-> p, viewers |-> {}, createdAt |-> now]
        /\ \E q \in Connected \ {p} : X \in rooms[q]

\* C26: a 'stream-ended' for stream X goes only to sockets that are in the
\* viewer set of X when X is deleted.
Claim_C26 ==
    [][ \A X \in Keys \ DOMAIN activeStreams' :
          \A m \in BagToSet(sent') :
             (m.ev = "stream-ended" /\ m.data.streamId = X)
             => m.to \in Viewers(X)
      ]_vars

\* The sockets whose 'disconnect' has not been handled
Present == {p \in Sockets : conn[p] \in {"connected", "closing"}}

\* C27: once the disconnect of a socket has been handled, no stream has it
\* as streamer or in its viewer set, then and ever after; so that when no
\* disconnect is waiting to be handled every streamer and every viewer in
\* the registry is a connected socket.
Thm_C27 ==
    /\ [][ \A p \in Sockets :
              last' = SocketEvent("disconnect", p)
              => \A id \in DOMAIN activeStreams' :
                    /\ activeStreams'[id].streamer # p
                    /\ p \notin activeStreams'[id].viewers
         ]_vars
    /\ [](\A id \in Keys : ({Streamer(id)} \cup Viewers(id)) \subseteq Present)

\* The disconnect of a socket that viewed a stream has been handled, the
\* stream is still registered and no disconnect is waiting.
Wit_C27 ==
    \E p \in Sockets, id \in Keys :
        /\ last = SocketEvent("disconnect", p)
        /\ BagIn(Msg(Streamer(id), "viewer-left",
                     [viewerId |-> p,
                      viewerCount |-> Cardinality(Viewers(id))]), sent)
        /\ Present = Connected

\* C28: when a join-stream deletes a stream because its streamer is not
\* connected, every connected socket in the viewer set of that stream is
\* sent 'stream-ended'.
Claim_C28 ==
    [][ \A p \in Sockets, X \in Keys \ DOMAIN activeStreams' :
          last' = Event("join-stream", p, X)
          => \A v \in Viewers(X) \cap Connected :
                \E m \in BagToSet(sent') : m.to = v /\ m.ev = "stream-ended"
      ]_vars

\* Sockets p and q are streamer and viewer, either way, of one stream
Share(p, q) ==
    \E id \in Keys : \/ Streamer(id) = p /\ q \in Viewers(id)
                     \/ Streamer(id) = q /\ p \in Viewers(id)

\* C29: an offer, answer or ice-candidate event of a socket causes a
\* message to a socket only if the two are streamer and viewer of one
\* stream.
Claim_C29 ==
    [][ \A p \in Sockets :
          (last'.ev \in SignalEvents /\ last'.socket = p)
          => \A m \in BagToSet(sent') : Share(p, m.to)
      ]_vars

\* The join-stream of socket v for stream X of streamer s has just succeeded
JoinedBy(v, X, s) ==
    /\ last = Event("join-stream", v, X)
    /\ BagIn(Msg(v, "stream-joined", [streamId |-> X, streamerId |-> s]), sent)

\* An offer of socket s has just been delivered to socket v
OfferedTo(v, s) ==
    /\ last.ev = "offer" /\ last.socket = s
    /\ \E m \in BagToSet(sent) : m.to = v /\ m.ev = "offer" /\ m.data.from = s

\* C30: after a successful join-stream of a socket, the streamer's client
\* sends an offer for that socket and the relay delivers it to it, unless
\* one of the two disconnects.
Claim_C30 ==
    \A v \in Sockets, s \in Sockets, X \in StreamIds :
        JoinedBy(v, X, s)
        ~> (OfferedTo(v, s) \/ v \notin Connected \/ s \notin Connected)

\* C31: every candidate the streamer's client emits goes to the viewer its
\* peer connection is negotiating with, the one its latest offer was made
\* for, also when another viewer has joined in between.
Claim_C31 ==
    [][ last'.ev = "icecandidate"
        => \A m \in BagToSet(sent') :
              m.ev = "ice-candidate" => m.data.target = app.peerConnection.for
      ]_vars

====
